---- MODULE Spec2Model ----
(***************************************************************************)
(* A model of the path-finding framework: the SearchEngine main loop, the  *)
(* three frontier containers (LIFO stack, FIFO queue, priority queue with  *)
(* lazy deletion), the Node / SearchResult records and the stock priority  *)
(* functions.  Problems are finite weighted graphs over States; the engine *)
(* configuration, the problem and the heuristic are chosen in Init and     *)
(* never change afterwards.                                                *)
(*                                                                         *)
(* Optional values (Python None / a value) are sequences of length 0 / 1.  *)
(* Costs and priorities are Python floats holding small integers; they are *)
(* integers here, float('inf') is the integer Inf, above every finite cost *)
(* the bounded model can produce.                                          *)
(***************************************************************************)
EXTENDS Integers, Sequences, FiniteSets, TLC

VARIABLES
    problem,            \* the injected Problem: [init, goal, cost, none_to]
    config,             \* [priority_fn, graph_search, allow_revisit(, max_nodes)]
    heuristic,          \* the injected Heuristic: h as a function on States
    frontier,           \* the injected frontier object
    nodes_expanded,     \* SearchEngine.nodes_expanded
    nodes_generated,    \* SearchEngine.nodes_generated
    max_frontier_size,  \* SearchEngine.max_frontier_size
    closed,             \* SearchEngine.closed
    best_cost,          \* SearchEngine.best_cost (a dict: a function on its keys)
    pc,                 \* position of the caller / of search(); "aborted": left by an exception
    current_node,       \* search(): current_node, while it is being expanded
    successors,         \* _expand_node(): the list returned by get_successors
    succ_idx,           \* _expand_node(): position of the for loop in successors
    returned,           \* the SearchResults returned by the search() calls so far
    calls               \* number of search() invocations so far

vars == <<problem, config, heuristic, frontier, nodes_expanded, nodes_generated,
          max_frontier_size, closed, best_cost, pc, current_node, successors,
          succ_idx, returned, calls>>

-----------------------------------------------------------------------------
(* Bounds of the model *)

NumStates == 3
MaxEdges == 3
MaxCost == 1
MaxNegCost == 1
MaxSearches == 2
MaxDepth == 4
MaxHeuristic == 1
MaxOps == 5
MaxPriority == 2

(* float('inf') *)
Inf == 1000000

(* the states of the ordinary problems, and of the wide ones (one state and
   one edge more) *)
States == 1..NumStates
WideStates == 1..(NumStates + 1)
None == <<>>
Some(x) == <<x>>

(* a maximum that keeps its first argument *)
Max_keep_first(a, b) == a

Max(a, b) == IF a >= b THEN a ELSE b
SetMin(S) == CHOOSE x \in S : \A y \in S : x <= y

-----------------------------------------------------------------------------
(* Node and the Problem contract *)

Node(state, parent, action, path_cost, depth) ==
    [state |-> state, parent |-> parent, action |-> action,
     path_cost |-> path_cost, depth |-> depth]

(* Problem.is_goal *)
is_goal(p, s) == s = p.goal

(* the action a problem attaches to the move s -> t: a label, or None *)
ActionOf(p, s, t) == IF t \in p.none_to THEN None ELSE Some(t)

RECURSIVE SuccessorsFrom(_, _, _)
SuccessorsFrom(p, s, t) ==
    IF t > p.num_states THEN <<>>
    ELSE (IF <<s, t>> \in DOMAIN p.cost
            THEN << <<t, ActionOf(p, s, t), p.cost[<<s, t>>]>> >>
            ELSE <<>>) \o SuccessorsFrom(p, s, t + 1)

(* Problem.get_successors: the (next_state, action, step_cost) tuples, in a
   fixed order (ascending next_state) *)
get_successors(p, s) == SuccessorsFrom(p, s, 1)

-----------------------------------------------------------------------------
(* Priority functions and heuristics *)

NullHeuristic == [s \in WideStates |-> 0]

(* a path-cost priority that orders by the number of moves instead *)
uniform_cost_priority_by_depth(node, h) == node.depth

uniform_cost_priority(node, h) == node.path_cost
(* a depth priority with the sign reversed: deepest first *)
breadth_first_priority_deepest(node, h) == 0 - node.depth

breadth_first_priority(node, h) == node.depth
depth_first_priority(node, h) == 0 - node.depth
astar_priority(node, h) == node.path_cost + h[node.state]
greedy_best_first_priority(node, h) == h[node.state]

priority_fn(name, node, h) ==
    CASE name = "ucs" -> uniform_cost_priority(node, h)
      [] name = "bfs" -> breadth_first_priority(node, h)
      [] name = "dfs" -> depth_first_priority(node, h)
      [] name = "astar" -> astar_priority(node, h)
      [] name = "greedy" -> greedy_best_first_priority(node, h)

(* examples/graph_strategies.py: priority functions that raise
   NegativeCycleDetectedError when the path of the node is longer than
   max_nodes.  The outcome of a call is Some(priority), or None when the call
   raises. *)
(* a robust path-cost priority that lets one more move through *)
robust_uniform_cost_priority_late(node, h, max_nodes) ==
    IF node.depth > max_nodes THEN None ELSE Some(node.path_cost)

robust_uniform_cost_priority(node, h, max_nodes) ==
    LET path_length == node.depth + 1
    IN IF path_length > max_nodes THEN None ELSE Some(node.path_cost)

robust_astar_priority(node, h, max_nodes) ==
    LET path_length == node.depth + 1
    IN IF path_length > max_nodes THEN None
       ELSE Some(node.path_cost + h[node.state])

(* create_robust_priority_function(base_priority_fn, max_nodes), called *)
wrapped_priority_fn(base_priority_fn, max_nodes, node, h) ==
    LET path_length == node.depth + 1
    IN IF path_length > max_nodes THEN None
       ELSE Some(priority_fn(base_priority_fn, node, h))

(* the names of the robust priority functions: the two written out, and
   create_robust_priority_function over a stock function *)
WrappedFns ==
    [robust_bfs |-> "bfs", robust_dfs |-> "dfs", robust_greedy |-> "greedy"]
RobustFns == {"robust_ucs", "robust_astar"} \cup DOMAIN WrappedFns

(* self.priority_fn(node, self.heuristic) for the function the configuration
   cfg injects: Some(priority), or None when the call raises *)
call_priority_fn(cfg, node, h) ==
    CASE cfg.priority_fn = "robust_ucs" ->
           robust_uniform_cost_priority(node, h, cfg.max_nodes)
      [] cfg.priority_fn = "robust_astar" ->
           robust_astar_priority(node, h, cfg.max_nodes)
      [] cfg.priority_fn \in DOMAIN WrappedFns ->
           wrapped_priority_fn(WrappedFns[cfg.priority_fn], cfg.max_nodes, node, h)
      [] OTHER -> Some(priority_fn(cfg.priority_fn, node, h))

-----------------------------------------------------------------------------
(* LIFOStackFrontier *)

LIFOStackFrontier == [kind |-> "stack", items |-> <<>>, state_set |-> {}]

(* a push that moves a state already present to the top, with the new node *)
LIFOStackFrontier_push_to_top(f, node, priority) ==
    [f EXCEPT !.items = Append(SelectSeq(f.items, LAMBDA n : n.state # node.state), node),
              !.state_set = f.state_set \cup {node.state}]

(* a push that stacks the node whether or not its state is present *)
LIFOStackFrontier_push_always(f, node, priority) ==
    [f EXCEPT !.items = Append(f.items, node),
              !.state_set = f.state_set \cup {node.state}]

LIFOStackFrontier_push(f, node, priority) ==
    IF node.state \notin f.state_set
      THEN [f EXCEPT !.items = Append(f.items, node),
                     !.state_set = f.state_set \cup {node.state}]
      ELSE f

LIFOStackFrontier_pop(f) ==
    IF f.items = <<>>
      THEN [ok |-> FALSE, node |-> None, frontier |-> f]
      ELSE LET node == f.items[Len(f.items)]
           IN [ok |-> TRUE, node |-> Some(node),
               frontier |-> [f EXCEPT !.items = SubSeq(f.items, 1, Len(f.items) - 1),
                                      !.state_set = f.state_set \ {node.state}]]

(* FIFOQueueFrontier *)

FIFOQueueFrontier == [kind |-> "fifo", items |-> <<>>, state_set |-> {}]

(* a push that appends whether or not the state is present *)
FIFOQueueFrontier_push_always(f, node, priority) ==
    [f EXCEPT !.items = Append(f.items, node),
              !.state_set = f.state_set \cup {node.state}]

FIFOQueueFrontier_push(f, node, priority) ==
    IF node.state \notin f.state_set
      THEN [f EXCEPT !.items = Append(f.items, node),
                     !.state_set = f.state_set \cup {node.state}]
      ELSE f

(* a pop that forgets to discard the state from state_set *)
FIFOQueueFrontier_pop_keeping_state(f) ==
    IF f.items = <<>>
      THEN [ok |-> FALSE, node |-> None, frontier |-> f]
      ELSE [ok |-> TRUE, node |-> Some(Head(f.items)),
            frontier |-> [f EXCEPT !.items = Tail(f.items)]]

FIFOQueueFrontier_pop(f) ==
    IF f.items = <<>>
      THEN [ok |-> FALSE, node |-> None, frontier |-> f]
      ELSE LET node == Head(f.items)
           IN [ok |-> TRUE, node |-> Some(node),
               frontier |-> [f EXCEPT !.items = Tail(f.items),
                                      !.state_set = f.state_set \ {node.state}]]

(* PriorityQueueFrontier.  heap is the set of (priority, counter, node)
   entries held by the heapq list: heappop removes the least entry in the
   tuple order, which the unique counter makes total on (priority, counter). *)

PriorityQueueFrontier ==
    [kind |-> "pq", heap |-> {}, entry_finder |-> <<>>, counter |-> 0]

Entry(priority, count, node) == [priority |-> priority, count |-> count, node |-> node]

(* an order of heap entries in which the newest of equal priorities is least *)
EntryLess_newest_first(a, b) ==
    \/ a.priority < b.priority
    \/ a.priority = b.priority /\ a.count > b.count

(* tuple order of heap entries *)
EntryLess(a, b) ==
    \/ a.priority < b.priority
    \/ a.priority = b.priority /\ a.count < b.count

(* an entry comparison that looks at the state only *)
EntryEq_by_state(a, b) == a.node.state = b.node.state

(* tuple equality of entries; Node.__eq__ compares the states *)
EntryEq(a, b) ==
    a.priority = b.priority /\ a.count = b.count /\ a.node.state = b.node.state

HeapMin(heap) == CHOOSE e \in heap : \A o \in heap : o = e \/ EntryLess(e, o)

DictDel(d, k) == [x \in (DOMAIN d) \ {k} |-> d[x]]
DictSet(d, k, v) == [x \in (DOMAIN d) \cup {k} |-> IF x = k THEN v ELSE d[x]]
DictGet(d, k, default) == IF k \in DOMAIN d THEN d[k] ELSE default

(* a push without update-on-improve: a state already present is never replaced *)
PriorityQueueFrontier_push_keep_first(f, node, priority) ==
    IF node.state \in DOMAIN f.entry_finder
      THEN f
      ELSE LET entry == Entry(priority, f.counter, node)
           IN [f EXCEPT !.entry_finder = DictSet(f.entry_finder, node.state, entry),
                        !.heap = f.heap \cup {entry},
                        !.counter = f.counter + 1]

(* a push that replaces the stored entry on an equal priority as well *)
PriorityQueueFrontier_push_or_equal(f, node, priority) ==
    IF node.state \in DOMAIN f.entry_finder
         /\ ~(priority <= f.entry_finder[node.state].priority)
      THEN f
      ELSE LET entry == Entry(priority, f.counter, node)
           IN [f EXCEPT !.entry_finder = DictSet(f.entry_finder, node.state, entry),
                        !.heap = f.heap \cup {entry},
                        !.counter = f.counter + 1]

(* a push that, on a replacement, records the new entry in entry_finder
   only and does not put it on the heap *)
PriorityQueueFrontier_push_index_only(f, node, priority) ==
    IF node.state \in DOMAIN f.entry_finder
         /\ ~(priority < f.entry_finder[node.state].priority)
      THEN f
      ELSE LET entry == Entry(priority, f.counter, node)
           IN [f EXCEPT !.entry_finder = DictSet(f.entry_finder, node.state, entry),
                        !.heap = IF node.state \in DOMAIN f.entry_finder
                                   THEN f.heap ELSE f.heap \cup {entry},
                        !.counter = f.counter + 1]

PriorityQueueFrontier_push(f, node, priority) ==
    IF node.state \in DOMAIN f.entry_finder
         /\ ~(priority < f.entry_finder[node.state].priority)
      THEN f
      ELSE LET entry == Entry(priority, f.counter, node)
           IN [f EXCEPT !.entry_finder = DictSet(f.entry_finder, node.state, entry),
                        !.heap = f.heap \cup {entry},
                        !.counter = f.counter + 1]

(* a pop without lazy deletion: the least heap entry is returned as it is *)
PriorityQueueFrontier_pop_unchecked(f) ==
    IF f.heap = {}
      THEN [ok |-> FALSE, node |-> None, frontier |-> f]
      ELSE LET e == HeapMin(f.heap)
           IN [ok |-> TRUE, node |-> Some(e.node),
               frontier |-> [f EXCEPT !.heap = f.heap \ {e},
                                      !.entry_finder =
                                          DictDel(f.entry_finder, e.node.state)]]

RECURSIVE PriorityQueueFrontier_pop(_)
PriorityQueueFrontier_pop(f) ==
    IF f.heap = {}
      THEN [ok |-> FALSE, node |-> None, frontier |-> f]
      ELSE LET e == HeapMin(f.heap)
               rest == [f EXCEPT !.heap = f.heap \ {e}]
           IN IF e.node.state \in DOMAIN f.entry_finder
                   /\ EntryEq(f.entry_finder[e.node.state], e)
                THEN [ok |-> TRUE, node |-> Some(e.node),
                      frontier |-> [rest EXCEPT !.entry_finder =
                                        DictDel(f.entry_finder, e.node.state)]]
                ELSE PriorityQueueFrontier_pop(rest)

(* AbstractFrontier: dispatch on the injected object *)

push(f, node, priority) ==
    CASE f.kind = "stack" -> LIFOStackFrontier_push(f, node, priority)
      [] f.kind = "fifo" -> FIFOQueueFrontier_push(f, node, priority)
      [] f.kind = "pq" -> PriorityQueueFrontier_push(f, node, priority)

(* a pop that returns the node and leaves it in the frontier *)
pop_without_removal(f) ==
    [ok |-> CASE f.kind = "stack" -> LIFOStackFrontier_pop(f).ok
              [] f.kind = "fifo" -> FIFOQueueFrontier_pop(f).ok
              [] f.kind = "pq" -> PriorityQueueFrontier_pop(f).ok,
     node |-> CASE f.kind = "stack" -> LIFOStackFrontier_pop(f).node
                [] f.kind = "fifo" -> FIFOQueueFrontier_pop(f).node
                [] f.kind = "pq" -> PriorityQueueFrontier_pop(f).node,
     frontier |-> f]

pop(f) ==
    CASE f.kind = "stack" -> LIFOStackFrontier_pop(f)
      [] f.kind = "fifo" -> FIFOQueueFrontier_pop(f)
      [] f.kind = "pq" -> PriorityQueueFrontier_pop(f)

len(f) ==
    IF f.kind = "pq" THEN Cardinality(DOMAIN f.entry_finder) ELSE Len(f.items)

is_empty(f) == len(f) = 0

contains(f, node) ==
    IF f.kind = "pq" THEN node.state \in DOMAIN f.entry_finder
                     ELSE node.state \in f.state_set

-----------------------------------------------------------------------------
(* SearchResult and path reconstruction *)

SearchResult(success, goal_node, expanded, generated, max_size, path, actions, total_cost) ==
    [success |-> success, goal_node |-> goal_node, nodes_expanded |-> expanded,
     nodes_generated |-> generated, max_frontier_size |-> max_size,
     path |-> path, actions |-> actions, total_cost |-> total_cost]

(* a reconstruction that leaves out the final reverse: goal first *)
RECURSIVE PathOf_unreversed(_)
PathOf_unreversed(node) ==
    <<node.state>> \o
      (IF node.parent = None THEN <<>> ELSE PathOf_unreversed(node.parent[1]))

(* _reconstruct_path: the states from the root to the node *)
RECURSIVE PathOf(_)
PathOf(node) ==
    (IF node.parent = None THEN <<>> ELSE PathOf(node.parent[1])) \o <<node.state>>

(* _reconstruct_path: the actions from the root to the node; an action that
   is None is not appended *)
RECURSIVE ActionsOf(_)
ActionsOf(node) ==
    (IF node.parent = None THEN <<>> ELSE ActionsOf(node.parent[1]))
      \o (IF node.action # None THEN <<node.action[1]>> ELSE <<>>)

_reconstruct_path(goal_node) == <<PathOf(goal_node), ActionsOf(goal_node)>>

(* a success result that counts the goal node as expanded *)
_build_success_result_counting_goal(goal_node, expanded, generated, max_size) ==
    LET pa == _reconstruct_path(goal_node)
    IN SearchResult(TRUE, Some(goal_node), expanded + 1, generated, max_size,
                    pa[1], pa[2], goal_node.path_cost)

_build_success_result(goal_node, expanded, generated, max_size) ==
    LET pa == _reconstruct_path(goal_node)
    IN SearchResult(TRUE, Some(goal_node), expanded, generated, max_size,
                    pa[1], pa[2], goal_node.path_cost)

_build_failure_result(expanded, generated, max_size) ==
    SearchResult(FALSE, None, expanded, generated, max_size, <<>>, <<>>, Inf)

-----------------------------------------------------------------------------
(* SearchEngine.search *)

(* search(), from its first line to the head of the main loop: the
   statistics, closed and best_cost are reset (the frontier object is not
   touched), the root node is pushed.  An exception of the priority function
   leaves search() after the reset. *)
SearchStart ==
    LET initial_state == problem.init
        root_node == Node(initial_state, None, None, 0, 0)
        priority == call_priority_fn(config, root_node, heuristic)
    IN /\ nodes_expanded' = 0
       /\ max_frontier_size' = 0
       /\ closed' = {}
       /\ IF priority = None
            THEN /\ pc' = "aborted"
                 /\ nodes_generated' = 0
                 /\ best_cost' = <<>>
                 /\ UNCHANGED frontier
            ELSE /\ pc' = "loop"
                 /\ frontier' = push(frontier, root_node, priority[1])
                 /\ nodes_generated' = 1
                 /\ best_cost' = IF config.allow_revisit
                                   THEN DictSet(<<>>, initial_state, 0)
                                   ELSE <<>>
       /\ current_node' = None
       /\ successors' = <<>>
       /\ succ_idx' = 0
       /\ calls' = calls + 1
       /\ UNCHANGED <<problem, config, heuristic, returned>>

(* the first search() call on a freshly constructed engine *)
Search ==
    /\ pc = "idle"
    /\ SearchStart

(* a later search() call on the same engine, after the previous one returned *)
SearchAgain ==
    /\ pc = "done"
    /\ calls < MaxSearches
    /\ SearchStart

(* a visited test that also skips a node as cheap as the best cost *)
IsSkipped_or_equal(node) ==
    /\ config.graph_search
    /\ IF config.allow_revisit
         THEN node.path_cost >= DictGet(best_cost, node.state, Inf)
         ELSE node.state \in closed

(* a visited test with the strict-mode condition inverted *)
IsSkipped_inverted(node) ==
    /\ config.graph_search
    /\ IF config.allow_revisit
         THEN node.path_cost > DictGet(best_cost, node.state, Inf)
         ELSE node.state \notin closed

(* the visited handling of the main loop: TRUE when the popped node is
   skipped ('continue') *)
IsSkipped(node) ==
    /\ config.graph_search
    /\ IF config.allow_revisit
         THEN node.path_cost > DictGet(best_cost, node.state, Inf)
         ELSE node.state \in closed

(* one iteration of the main loop up to the call of _expand_node *)
LoopIteration ==
    /\ pc = "loop"
    /\ ~is_empty(frontier)
    /\ LET size == Max(max_frontier_size, len(frontier))
           r == pop(frontier)
       IN /\ max_frontier_size' = size
          /\ frontier' = r.frontier
          /\ IF ~r.ok
               THEN \* IndexError leaves search()
                    /\ pc' = "raised"
                    /\ UNCHANGED <<nodes_expanded, closed, best_cost, current_node,
                                   successors, succ_idx, returned>>
               ELSE LET node == r.node[1]
                    IN IF is_goal(problem, node.state)
                         THEN /\ returned' = Append(returned,
                                     _build_success_result(node, nodes_expanded,
                                                           nodes_generated, size))
                              /\ pc' = "done"
                              /\ UNCHANGED <<nodes_expanded, closed, best_cost,
                                             current_node, successors, succ_idx>>
                         ELSE IF IsSkipped(node)
                           THEN /\ pc' = "loop"
                                /\ UNCHANGED <<nodes_expanded, closed, best_cost,
                                               current_node, successors, succ_idx,
                                               returned>>
                           ELSE /\ best_cost' =
                                     IF config.graph_search /\ config.allow_revisit
                                       THEN DictSet(best_cost, node.state, node.path_cost)
                                       ELSE best_cost
                                /\ closed' =
                                     IF config.graph_search /\ ~config.allow_revisit
                                       THEN closed \cup {node.state}
                                       ELSE closed
                                /\ nodes_expanded' = nodes_expanded + 1
                                /\ current_node' = Some(node)
                                /\ successors' = get_successors(problem, node.state)
                                /\ succ_idx' = 1
                                /\ pc' = IF get_successors(problem, node.state) = <<>>
                                           THEN "loop" ELSE "expand"
                                /\ UNCHANGED returned
    /\ UNCHANGED <<problem, config, heuristic, nodes_generated, calls>>

(* a successor test that discards nothing *)
IsDiscarded_never(next_state, new_cost) == FALSE

(* a successor test that lets through a path as cheap as the best one *)
IsDiscarded_only_dearer(next_state, new_cost) ==
    /\ config.graph_search
    /\ IF config.allow_revisit
         THEN new_cost > DictGet(best_cost, next_state, Inf)
         ELSE next_state \in closed

(* _expand_node: TRUE when the successor is discarded ('continue') *)
IsDiscarded(next_state, new_cost) ==
    /\ config.graph_search
    /\ IF config.allow_revisit
         THEN new_cost >= DictGet(best_cost, next_state, Inf)
         ELSE next_state \in closed

(* an _expand_node that catches the exception of the priority function and
   goes on with the next successor *)
ExpandSuccessor_suppressing ==
    /\ pc = "expand"
    /\ succ_idx <= Len(successors)
    /\ current_node[1].depth < MaxDepth
    /\ LET node == current_node[1]
           next_state == successors[succ_idx][1]
           new_cost == node.path_cost + successors[succ_idx][3]
           child_node == Node(next_state, Some(node), successors[succ_idx][2],
                              new_cost, node.depth + 1)
           priority == call_priority_fn(config, child_node, heuristic)
       IN IF IsDiscarded(next_state, new_cost) \/ priority = None
            THEN UNCHANGED <<frontier, nodes_generated>>
            ELSE /\ frontier' = push(frontier, child_node, priority[1])
                 /\ nodes_generated' = nodes_generated + 1
    /\ succ_idx' = succ_idx + 1
    /\ pc' = IF succ_idx = Len(successors) THEN "loop" ELSE "expand"
    /\ UNCHANGED <<problem, config, heuristic, nodes_expanded, max_frontier_size,
                   closed, best_cost, current_node, successors, returned, calls>>

(* an _expand_node that records the cost of every successor it pushes *)
ExpandSuccessor_recording ==
    /\ pc = "expand"
    /\ succ_idx <= Len(successors)
    /\ current_node[1].depth < MaxDepth
    /\ LET node == current_node[1]
           next_state == successors[succ_idx][1]
           new_cost == node.path_cost + successors[succ_idx][3]
           child_node == Node(next_state, Some(node), successors[succ_idx][2],
                              new_cost, node.depth + 1)
           priority == call_priority_fn(config, child_node, heuristic)
           continue == IF succ_idx = Len(successors) THEN "loop" ELSE "expand"
       IN IF IsDiscarded(next_state, new_cost)
            THEN /\ pc' = continue
                 /\ UNCHANGED <<frontier, nodes_generated, best_cost>>
            ELSE IF priority = None
              THEN /\ pc' = "aborted"
                   /\ UNCHANGED <<frontier, nodes_generated, best_cost>>
              ELSE /\ pc' = continue
                   /\ frontier' = push(frontier, child_node, priority[1])
                   /\ nodes_generated' = nodes_generated + 1
                   /\ best_cost' =
                        IF config.graph_search /\ config.allow_revisit
                          THEN DictSet(best_cost, next_state, new_cost)
                          ELSE best_cost
    /\ succ_idx' = succ_idx + 1
    /\ UNCHANGED <<problem, config, heuristic, nodes_expanded, max_frontier_size,
                   closed, current_node, successors, returned, calls>>

(* _expand_node: one pass of the for loop over the successors; an exception
   of the priority function leaves _expand_node and search() *)
ExpandSuccessor ==
    /\ pc = "expand"
    /\ succ_idx <= Len(successors)
    /\ current_node[1].depth < MaxDepth
    /\ LET node == current_node[1]
           next_state == successors[succ_idx][1]
           action == successors[succ_idx][2]
           step_cost == successors[succ_idx][3]
           new_cost == node.path_cost + step_cost
           child_node == Node(next_state, Some(node), action, new_cost, node.depth + 1)
           priority == call_priority_fn(config, child_node, heuristic)
           continue == IF succ_idx = Len(successors) THEN "loop" ELSE "expand"
       IN IF IsDiscarded(next_state, new_cost)
            THEN /\ pc' = continue
                 /\ UNCHANGED <<frontier, nodes_generated>>
            ELSE IF priority = None
              THEN /\ pc' = "aborted"
                   /\ UNCHANGED <<frontier, nodes_generated>>
              ELSE /\ pc' = continue
                   /\ frontier' = push(frontier, child_node, priority[1])
                   /\ nodes_generated' = nodes_generated + 1
    /\ succ_idx' = succ_idx + 1
    /\ UNCHANGED <<problem, config, heuristic, nodes_expanded, max_frontier_size,
                   closed, best_cost, current_node, successors, returned, calls>>

(* the main loop ends on an empty frontier: the failure result *)
ReturnFailure ==
    /\ pc = "loop"
    /\ is_empty(frontier)
    /\ returned' = Append(returned,
           _build_failure_result(nodes_expanded, nodes_generated, max_frontier_size))
    /\ pc' = "done"
    /\ UNCHANGED <<problem, config, heuristic, frontier, nodes_expanded,
                   nodes_generated, max_frontier_size, closed, best_cost,
                   current_node, successors, succ_idx, calls>>

Next == Search \/ LoopIteration \/ ExpandSuccessor \/ ReturnFailure

NextRepeated == Next \/ SearchAgain

-----------------------------------------------------------------------------
(* The problems, configurations and initial states *)

(* the moves a graph on the states 1..n may have: every ordered pair of
   distinct states *)
Pairs(n) == {e \in (1..n) \X (1..n) : e[1] # e[2]}

(* the weighted graphs on 1..n with at most m edges and step costs in costs *)
Graphs(n, m, costs) ==
    UNION {[E -> costs] : E \in {X \in SUBSET Pairs(n) : Cardinality(X) <= m}}

(* the problems on those graphs: the search starts in state 1, any state may
   be the goal; none_sets are the sets of states entered by a None action *)
ProblemsOn(n, m, costs, none_sets) ==
    {[num_states |-> n, init |-> 1, goal |-> g, cost |-> c, none_to |-> x] :
        g \in 1..n, c \in Graphs(n, m, costs), x \in none_sets}

Problems(costs, none_sets) == ProblemsOn(NumStates, MaxEdges, costs, none_sets)
WideProblems(costs, none_sets) ==
    ProblemsOn(NumStates + 1, MaxEdges + 1, costs, none_sets)

NonNegativeCosts == 0..MaxCost
UnitCosts == {1}
SignedCosts == (0 - MaxNegCost)..MaxCost
ExtremeCosts == {0 - MaxNegCost, MaxCost}

Config(fn, graph_search, allow_revisit) ==
    [priority_fn |-> fn, graph_search |-> graph_search, allow_revisit |-> allow_revisit]

(* the configuration with a robust priority function bound to max_nodes *)
RobustConfig(fn, graph_search, allow_revisit, max_nodes) ==
    [priority_fn |-> fn, graph_search |-> graph_search,
     allow_revisit |-> allow_revisit, max_nodes |-> max_nodes]

StrictGraphSearch(fn) == Config(fn, TRUE, FALSE)
CostTrackedSearch(fn) == Config(fn, TRUE, TRUE)
TreeSearch(fn) == Config(fn, FALSE, FALSE)

(* SearchEngine.__init__ on freshly constructed collaborators *)
InitEngine ==
    /\ nodes_expanded = 0
    /\ nodes_generated = 0
    /\ max_frontier_size = 0
    /\ closed = {}
    /\ best_cost = <<>>
    /\ pc = "idle"
    /\ current_node = None
    /\ successors = <<>>
    /\ succ_idx = 0
    /\ returned = <<>>
    /\ calls = 0

-----------------------------------------------------------------------------
(* Reference values the properties compare the results with *)

(* one round of edge relaxation over a distance table *)
Relax(cost, d) ==
    [t \in DOMAIN d |->
        SetMin({d[t]} \cup {d[e[1]] + cost[e] :
                             e \in {x \in DOMAIN cost : x[2] = t /\ d[x[1]] < Inf}})]

RECURSIVE RelaxTimes(_, _, _)
RelaxTimes(cost, d, k) == IF k = 0 THEN d ELSE RelaxTimes(cost, Relax(cost, d), k - 1)

(* least total cost of a path from s to each state (Inf: no path), for a
   graph without a negative-cost cycle *)
DistFrom(cost, s) ==
    RelaxTimes(cost, [t \in WideStates |-> IF t = s THEN 0 ELSE Inf], NumStates)

HasNegativeCycle(cost) ==
    \E s \in WideStates : Relax(cost, DistFrom(cost, s)) # DistFrom(cost, s)

UnitCostOf(cost) == [e \in DOMAIN cost |-> 1]

(* least total cost, and least number of edges, of a path from the initial
   state to the goal *)
MinCost(p) == DistFrom(p.cost, p.init)[p.goal]
MinEdges(p) == DistFrom(UnitCostOf(p.cost), p.init)[p.goal]
GoalReachable(p) == MinCost(p) < Inf
ReachableStates(p) == {s \in WideStates : DistFrom(p.cost, p.init)[s] < Inf}

(* the result of the latest search() call *)
Done == pc = "done"
LastResult == returned[Len(returned)]

-----------------------------------------------------------------------------
(* Uniform-cost search: priority queue, path-cost priority, strict graph
   search, non-negative step costs *)

InitUCS ==
    /\ problem \in Problems(NonNegativeCosts, {{}})
    /\ config = StrictGraphSearch("ucs")
    /\ heuristic = NullHeuristic
    /\ frontier = PriorityQueueFrontier
    /\ InitEngine

SpecUCS == InitUCS /\ [][Next]_vars

\* C1: uniform-cost search under strict graph search returns a path of least
\* total cost whenever the goal is reachable and no step cost is negative.
UCSReturnsMinimumCost ==
    (Done /\ GoalReachable(problem)) =>
        (LastResult.success /\ LastResult.total_cost = MinCost(problem))

\* a search that ended on a path of two edges although a dearer direct move
\* from the initial state to the goal exists
UCSReturnsMinimumCostWitness ==
    /\ Done
    /\ LastResult.success
    /\ Len(LastResult.path) = 3
    /\ <<problem.init, problem.goal>> \in DOMAIN problem.cost
    /\ LastResult.total_cost = MinCost(problem)
    /\ LastResult.total_cost < problem.cost[<<problem.init, problem.goal>>]

-----------------------------------------------------------------------------
(* Breadth-first search: the FIFO queue (which ignores the priority) or the
   priority queue with the depth priority, strict graph search, unweighted
   graphs *)

PriorityFns == {"ucs", "bfs", "dfs", "astar", "greedy"}

InitBFS ==
    /\ problem \in Problems(UnitCosts, {{}})
    /\ \/ /\ frontier = FIFOQueueFrontier
          /\ config \in {StrictGraphSearch(fn) : fn \in PriorityFns}
       \/ /\ frontier = PriorityQueueFrontier
          /\ config = StrictGraphSearch("bfs")
    /\ heuristic = NullHeuristic
    /\ InitEngine

SpecBFS == InitBFS /\ [][Next]_vars

\* C2: breadth-first search under strict graph search returns a path with the
\* least number of edges whenever the goal is reachable.
BFSReturnsFewestEdges ==
    (Done /\ GoalReachable(problem)) =>
        (LastResult.success /\ Len(LastResult.path) - 1 = MinEdges(problem))

\* a FIFO search that returned a two-edge path on a graph of three edges,
\* after expanding the root and the middle state
BFSReturnsFewestEdgesWitness ==
    /\ Done
    /\ frontier.kind = "fifo"
    /\ LastResult.success
    /\ Len(LastResult.path) = 3
    /\ MinEdges(problem) = 2
    /\ Cardinality(DOMAIN problem.cost) = 3
    /\ LastResult.nodes_expanded = 2
    /\ LastResult.nodes_generated = 3

-----------------------------------------------------------------------------
(* The three-node example: A -> B (cost 5), A -> C (cost 1), C -> B (cost 1),
   from A to B; A = 1, B = 2, C = 3, so that A's successors come in the order
   B then C. Run under every stock frontier, priority function and mode. *)

ProblemABC ==
    [num_states |-> 3, init |-> 1, goal |-> 2,
     cost |-> (<<1, 2>> :> 5) @@ (<<1, 3>> :> 1) @@ (<<3, 2>> :> 1),
     none_to |-> {}]

StockFrontiers == {LIFOStackFrontier, FIFOQueueFrontier, PriorityQueueFrontier}

Modes(fn) == {StrictGraphSearch(fn), CostTrackedSearch(fn), TreeSearch(fn)}

(* the example, and the same graph searched for each other state (state 4
   is not in the graph) *)
ExampleProblems == {[ProblemABC EXCEPT !.goal = g] : g \in 1..4}

InitABC ==
    /\ problem \in ExampleProblems
    /\ frontier \in StockFrontiers
    /\ config \in UNION {Modes(fn) : fn \in PriorityFns}
    /\ heuristic = NullHeuristic
    /\ InitEngine

SpecABC == InitABC /\ [][Next]_vars

CostTracked == config.graph_search /\ config.allow_revisit

\* C3 as stated: in allow_revisit mode the example returns [A, C, B] with
\* total cost 2 under every frontier variant and priority function.
ABCAlwaysReturnsCheapPath ==
    (Done /\ CostTracked /\ problem = ProblemABC) =>
        (LastResult.path = <<1, 3, 2>> /\ LastResult.total_cost = 2)

\* C3 amended: in allow_revisit mode the example returns [A, C, B] with total
\* cost 2 under the priority queue with the path-cost priority, and [A, B]
\* with total cost 5 under the stack, the queue, and the priority queue with
\* the BFS or DFS priority.
ABCReturnsCheapPathUnderUCS ==
    (Done /\ CostTracked /\ problem = ProblemABC) =>
        /\ (frontier.kind = "pq" /\ config.priority_fn = "ucs") =>
              (LastResult.path = <<1, 3, 2>> /\ LastResult.total_cost = 2)
        /\ (frontier.kind # "pq" \/ config.priority_fn \in {"bfs", "dfs"}) =>
              (LastResult.path = <<1, 2>> /\ LastResult.total_cost = 5)

\* the cost-tracked path-cost search has returned [A, C, B] after generating
\* B twice (through A and through C)
ABCReturnsCheapPathUnderUCSWitness ==
    /\ Done
    /\ CostTracked
    /\ problem = ProblemABC
    /\ frontier.kind = "pq"
    /\ config.priority_fn = "ucs"
    /\ LastResult.path = <<1, 3, 2>>
    /\ LastResult.nodes_generated = 4

-----------------------------------------------------------------------------
(* Cost-tracked uniform-cost search: priority queue, path-cost priority,
   allow_revisit, step costs of either sign on graphs without a negative-cost
   cycle *)

InitSignedUCS ==
    /\ problem \in {p \in Problems(SignedCosts, {{}}) : ~HasNegativeCycle(p.cost)}
    /\ config = CostTrackedSearch("ucs")
    /\ heuristic = NullHeuristic
    /\ frontier = PriorityQueueFrontier
    /\ InitEngine

SpecSignedUCS == InitSignedUCS /\ [][Next]_vars

\* C4: with allow_revisit, the priority queue and the path-cost priority, the
\* search returns a path of least total cost on every graph without a
\* negative-cost cycle, whenever the goal is reachable.
CostTrackedUCSReturnsMinimumCost ==
    (Done /\ GoalReachable(problem)) =>
        (LastResult.success /\ LastResult.total_cost = MinCost(problem))

-----------------------------------------------------------------------------
(* A*: priority queue, f = g + h priority, strict graph search (the default
   configuration), non-negative step costs, admissible heuristics *)

(* least remaining cost from s to the goal (Inf: the goal cannot be reached) *)
TrueRemainingCost(p, s) == DistFrom(p.cost, s)[p.goal]

(* the heuristics with values up to MaxHeuristic that never overestimate; a
   state the goal cannot be reached from is rated 0 *)
HeuristicLimit(p) ==
    [s \in WideStates |->
        IF TrueRemainingCost(p, s) = Inf THEN 0
        ELSE IF TrueRemainingCost(p, s) > MaxHeuristic THEN MaxHeuristic
        ELSE TrueRemainingCost(p, s)]

AdmissibleHeuristics(p) ==
    UNION {{h \in [WideStates -> 0..MaxHeuristic] : \A s \in WideStates : h[s] <= limit[s]} :
              limit \in {HeuristicLimit(p)}}

InitAStar ==
    /\ problem \in WideProblems(NonNegativeCosts, {{}})
    /\ heuristic \in AdmissibleHeuristics(problem)
    /\ config = StrictGraphSearch("astar")
    /\ frontier = PriorityQueueFrontier
    /\ InitEngine

SpecAStar == InitAStar /\ [][Next]_vars

\* C5: A* in the default configuration returns a goal path of least total cost
\* for every admissible heuristic on graphs with non-negative step costs.
AStarReturnsMinimumCost ==
    (Done /\ GoalReachable(problem)) =>
        (LastResult.success /\ LastResult.total_cost = MinCost(problem))

-----------------------------------------------------------------------------
(* Strict graph search with every stock strategy: the stack with the DFS
   priority, the queue with the BFS priority, the priority queue with each
   priority function; step costs of either sign *)

StockStrategies ==
    {<<LIFOStackFrontier, "dfs">>, <<FIFOQueueFrontier, "bfs">>}
      \cup {<<PriorityQueueFrontier, fn>> : fn \in PriorityFns}

InitStrict ==
    /\ problem \in Problems(ExtremeCosts, {{}})
    /\ \E st \in StockStrategies :
          /\ frontier = st[1]
          /\ config = StrictGraphSearch(st[2])
    /\ heuristic = NullHeuristic
    /\ InitEngine

SpecStrict == InitStrict /\ [][Next]_vars

\* C6: under strict graph search a search whose goal is unreachable returns
\* the failure result (no goal node, empty path and actions, infinite cost)
\* and has expanded every state reachable from the initial state exactly once.
UnreachableGoalFails ==
    (Done /\ ~GoalReachable(problem)) =>
        /\ LastResult.success = FALSE
        /\ LastResult.goal_node = None
        /\ LastResult.path = <<>>
        /\ LastResult.actions = <<>>
        /\ LastResult.total_cost = Inf
        /\ LastResult.nodes_expanded = Cardinality(ReachableStates(problem))
        /\ closed = ReachableStates(problem)

\* a failed search that expanded both states reachable from the initial state,
\* which lie on a cycle, so that one move leads back to a closed state
UnreachableGoalFailsWitness ==
    /\ Done
    /\ ~GoalReachable(problem)
    /\ ~LastResult.success
    /\ Cardinality(ReachableStates(problem)) = 2
    /\ Cardinality({e \in DOMAIN problem.cost : e[1] \in ReachableStates(problem)}) = 2
    /\ LastResult.nodes_expanded = 2
    /\ closed = ReachableStates(problem)

-----------------------------------------------------------------------------
(* Repeated search() calls on one engine, with the same problem and the same
   frontier object: every stock strategy and mode, non-negative step costs *)

InitRepeated ==
    /\ problem \in Problems(NonNegativeCosts, {{}})
    /\ \E st \in StockStrategies :
          /\ frontier = st[1]
          /\ config \in Modes(st[2])
    /\ heuristic = NullHeuristic
    /\ InitEngine

SpecRepeated == InitRepeated /\ [][NextRepeated]_vars

\* C7: nodes_generated >= nodes_expanded in every state of every search()
\* call, also of a call that follows an earlier one on the same engine and
\* frontier, and in every returned result; max_frontier_size >= 1 in every
\* returned result.
StatisticsInvariant ==
    /\ nodes_generated >= nodes_expanded
    /\ \A i \in 1..Len(returned) :
          /\ returned[i].nodes_generated >= returned[i].nodes_expanded
          /\ returned[i].max_frontier_size >= 1

\* C8: two serialized search() calls on the same engine return identical
\* SearchResults.
RepeatedSearchSameResult ==
    Len(returned) >= 2 => returned[2] = returned[1]

-----------------------------------------------------------------------------
(* Problems whose successor tuples may carry the action None: strict graph
   search with every stock strategy on unweighted graphs in which at most one
   state is entered by a None action *)

InitActions ==
    /\ problem \in Problems(UnitCosts, {{}} \cup {{s} : s \in States})
    /\ \E st \in StockStrategies :
          /\ frontier = st[1]
          /\ config = StrictGraphSearch(st[2])
    /\ heuristic = NullHeuristic
    /\ InitEngine

SpecActions == InitActions /\ [][Next]_vars

\* C9: a successful result whose goal node has depth D has D + 1 states in
\* path and D actions in actions, whatever the action values are (None
\* included); path starts at the initial state and ends at the goal node.
PathAndActionsLengths ==
    (Done /\ LastResult.success) =>
        LET D == LastResult.goal_node[1].depth
        IN /\ Len(LastResult.path) = D + 1
           /\ Len(LastResult.actions) = D
           /\ LastResult.path[1] = problem.init
           /\ LastResult.path[D + 1] = LastResult.goal_node[1].state

-----------------------------------------------------------------------------
(* Every stock strategy in every mode, on unweighted graphs *)

Init ==
    /\ problem \in Problems(UnitCosts, {{}})
    /\ \E st \in StockStrategies :
          /\ frontier = st[1]
          /\ config \in Modes(st[2])
    /\ heuristic = NullHeuristic
    /\ InitEngine

Spec == Init /\ [][Next]_vars

\* C10: the first popped node whose state satisfies is_goal ends the search,
\* whatever closed and best_cost hold: the result is built from exactly that
\* node and the statistics as they stand, the node is not expanded, closed and
\* best_cost are left alone, and once search() has returned nothing is popped
\* or pushed.
FirstGoalPoppedEndsSearch ==
    [][/\ (pc = "loop" /\ ~is_empty(frontier) /\ pop(frontier).ok
             /\ is_goal(problem, pop(frontier).node[1].state)) =>
            LET node == pop(frontier).node[1]
                result == returned'[Len(returned')]
            IN /\ pc' = "done"
               /\ returned' = Append(returned, result)
               /\ result.success
               /\ result.goal_node = Some(node)
               /\ result.total_cost = node.path_cost
               /\ result.path = PathOf(node)
               /\ result.nodes_expanded = nodes_expanded
               /\ result.nodes_generated = nodes_generated
               /\ nodes_expanded' = nodes_expanded
               /\ nodes_generated' = nodes_generated
               /\ frontier' = pop(frontier).frontier
               /\ closed' = closed
               /\ best_cost' = best_cost
       /\ pc = "done" => (frontier' = frontier /\ returned' = returned)]_vars

\* a search has returned a goal node of depth 2 without expanding it, although
\* a cheaper path (a single move) to the goal exists
FirstGoalPoppedEndsSearchWitness ==
    /\ Done
    /\ LastResult.success
    /\ LastResult.goal_node[1].depth = 2
    /\ LastResult.nodes_expanded = 2
    /\ LastResult.total_cost > MinCost(problem)

-----------------------------------------------------------------------------
(* Searches with a robust priority function, bound to a max_nodes between 0
   (the root itself is too long a path) and the number of states; every mode,
   unweighted graphs *)

RobustStrategies ==
    {<<LIFOStackFrontier, "robust_dfs">>, <<FIFOQueueFrontier, "robust_bfs">>,
     <<PriorityQueueFrontier, "robust_ucs">>,
     <<PriorityQueueFrontier, "robust_astar">>,
     <<PriorityQueueFrontier, "robust_greedy">>}

RobustModes(fn, max_nodes) ==
    {RobustConfig(fn, TRUE, FALSE, max_nodes), RobustConfig(fn, TRUE, TRUE, max_nodes),
     RobustConfig(fn, FALSE, FALSE, max_nodes)}

InitAbort ==
    /\ problem \in Problems(UnitCosts, {{}})
    /\ \E st \in RobustStrategies, max_nodes \in 0..NumStates :
          /\ frontier = st[1]
          /\ config \in RobustModes(st[2], max_nodes)
    /\ heuristic = NullHeuristic
    /\ InitEngine

SpecAbort == InitAbort /\ [][Next]_vars

(* the child node _expand_node is about to build, when pc = "expand" *)
PendingChild ==
    LET node == current_node[1]
        t == successors[succ_idx]
    IN Node(t[1], Some(node), t[2], node.path_cost + t[3], node.depth + 1)

Aborted == pc = "aborted"

\* C11: when the priority function raises while the root or a child is being
\* prioritised, search() ends abnormally at that point: nothing is pushed,
\* popped or counted any more, and no SearchResult is returned.
AbortPropagates ==
    [][/\ (pc = "idle" /\ call_priority_fn(config, Node(problem.init, None, None, 0, 0),
                                            heuristic) = None) =>
            (Aborted' /\ frontier' = frontier /\ returned' = returned
               /\ nodes_expanded' = 0 /\ nodes_generated' = 0)
       /\ (pc = "expand" /\ succ_idx <= Len(successors)
              /\ ~IsDiscarded(PendingChild.state, PendingChild.path_cost)
              /\ call_priority_fn(config, PendingChild, heuristic) = None) =>
            (Aborted' /\ frontier' = frontier /\ returned' = returned
               /\ nodes_expanded' = nodes_expanded
               /\ nodes_generated' = nodes_generated)
       /\ ~Aborted]_vars

\* a search aborted while its second node was being expanded, with a node
\* left in the frontier and nothing returned
AbortPropagatesWitness ==
    /\ Aborted
    /\ nodes_expanded = 2
    /\ ~is_empty(frontier)
    /\ returned = <<>>

-----------------------------------------------------------------------------
(* The frontiers on their own: a caller that owns a fresh frontier of one of
   the three kinds and calls push and pop on it in any order, with nodes of
   any state and path cost and with any priority.  pc is the outcome of the
   latest call ("pushed", "popped", or "empty" for an IndexError),
   current_node the node passed to push or returned by pop, calls the number
   of calls made.  The engine is not running: its variables keep their
   initial values. *)

Priorities == 0..MaxPriority

CallerNodes == {Node(s, None, None, c, 0) : s \in States, c \in 0..MaxCost}

FrontierPushCall(node, priority) ==
    /\ calls < MaxOps
    /\ frontier' = push(frontier, node, priority)
    /\ current_node' = Some(node)
    /\ pc' = "pushed"
    /\ calls' = calls + 1
    /\ UNCHANGED <<problem, config, heuristic, nodes_expanded, nodes_generated,
                   max_frontier_size, closed, best_cost, successors, succ_idx,
                   returned>>

FrontierPush == \E node \in CallerNodes, priority \in Priorities :
                    FrontierPushCall(node, priority)

FrontierPop ==
    /\ calls < MaxOps
    /\ LET r == pop(frontier)
       IN /\ frontier' = r.frontier
          /\ current_node' = r.node
          /\ pc' = IF r.ok THEN "popped" ELSE "empty"
    /\ calls' = calls + 1
    /\ UNCHANGED <<problem, config, heuristic, nodes_expanded, nodes_generated,
                   max_frontier_size, closed, best_cost, successors, succ_idx,
                   returned>>

NextFrontier == FrontierPush \/ FrontierPop

InitFrontier ==
    /\ frontier \in StockFrontiers
    /\ problem = ProblemABC
    /\ config = TreeSearch("ucs")
    /\ heuristic = NullHeuristic
    /\ InitEngine

SpecFrontier == InitFrontier /\ [][NextFrontier]_vars

(* what a caller can observe of a frontier: its size, the states it contains,
   and the nodes that pop returns from now until it is empty *)
RECURSIVE Drain(_)
Drain(f) ==
    LET r == pop(f)
    IN IF r.ok THEN <<r.node[1]>> \o Drain(r.frontier) ELSE <<>>

Members(f) == {s \in States : contains(f, Node(s, None, None, 0, 0))}

Observable(f) == [size |-> len(f), members |-> Members(f), pops |-> Drain(f)]

(* the node that pop will return for state s, which f contains *)
PoppedFor(f, s) ==
    LET d == Drain(f)
    IN d[CHOOSE i \in 1..Len(d) : d[i].state = s]

\* C12: a push on the priority queue of a node whose state is live replaces
\* the stored entry exactly when the new priority is strictly lower: then the
\* size and the membership are unchanged and the node later popped for the
\* state is the new one; otherwise nothing observable changes (size,
\* membership, the nodes later popped and their order).
UpdateOnImprove ==
    [][\A node \in CallerNodes, priority \in Priorities :
          (frontier.kind = "pq" /\ contains(frontier, node)
             /\ FrontierPushCall(node, priority)) =>
            IF priority < frontier.entry_finder[node.state].priority
              THEN /\ len(frontier') = len(frontier)
                   /\ Members(frontier') = Members(frontier)
                   /\ frontier'.entry_finder[node.state].priority = priority
                   /\ PoppedFor(frontier', node.state) = node
              ELSE Observable(frontier') = Observable(frontier)]_vars

\* the latest push was rejected (the stored node of its state is another
\* one), after an earlier push for the same state had replaced the entry
UpdateOnImproveWitness ==
    /\ pc = "pushed"
    /\ frontier.kind = "pq"
    /\ contains(frontier, current_node[1])
    /\ frontier.entry_finder[current_node[1].state].node # current_node[1]
    /\ frontier.entry_finder[current_node[1].state].count = 1
    /\ Cardinality({e \in frontier.heap : e.node.state = current_node[1].state}) = 2

\* C13: pop on a non-empty priority queue returns the live entry of least
\* priority, and among live entries of that priority the one accepted
\* earliest; the entry is removed.
PopReturnsMinimum ==
    [][(frontier.kind = "pq" /\ ~is_empty(frontier) /\ FrontierPop) =>
          LET live == {frontier.entry_finder[s] : s \in DOMAIN frontier.entry_finder}
              first == CHOOSE e \in live : \A o \in live :
                           \/ e.priority < o.priority
                           \/ e.priority = o.priority /\ e.count <= o.count
          IN /\ pc' = "popped"
             /\ current_node' = Some(first.node)
             /\ len(frontier') = len(frontier) - 1
             /\ ~contains(frontier', first.node)]_vars

\* three states were pushed with priority 0 and one pop has returned the
\* first of them: the two that remain are the second and the third
PopReturnsMinimumWitness ==
    /\ pc = "popped"
    /\ frontier.kind = "pq"
    /\ calls = 4
    /\ frontier.counter = 3
    /\ len(frontier) = 2
    /\ \A s \in DOMAIN frontier.entry_finder :
          /\ frontier.entry_finder[s].priority = 0
          /\ frontier.entry_finder[s].count >= 1

\* C14: a push on the stack or the queue of a node whose state is present
\* changes nothing: the size, the membership and the nodes later popped, in
\* their order, are the same, so the stored node is still the first one.
DuplicatePushIgnored ==
    [][\A node \in CallerNodes, priority \in Priorities :
          (frontier.kind \in {"stack", "fifo"} /\ contains(frontier, node)
             /\ FrontierPushCall(node, priority)) =>
            /\ len(frontier') = len(frontier)
            /\ Members(frontier') = Members(frontier)
            /\ PoppedFor(frontier', node.state) = PoppedFor(frontier, node.state)
            /\ Drain(frontier') = Drain(frontier)]_vars

\* the latest push, on a stack or queue of two nodes, was of a node that
\* differs from the stored node of its state
DuplicatePushIgnoredWitness ==
    /\ pc = "pushed"
    /\ frontier.kind \in {"stack", "fifo"}
    /\ calls = 3
    /\ len(frontier) = 2
    /\ contains(frontier, current_node[1])
    /\ PoppedFor(frontier, current_node[1].state) # current_node[1]

\* C15: a push on an empty frontier makes it a frontier of one node, and a
\* pop right after a push that left one node returns a node of the pushed
\* state and leaves the frontier empty, whatever the earlier calls were.
PushThenPopOnEmpty ==
    [][/\ \A node \in CallerNodes, priority \in Priorities :
            (is_empty(frontier) /\ FrontierPushCall(node, priority)) =>
               (len(frontier') = 1 /\ contains(frontier', node))
       /\ (pc = "pushed" /\ len(frontier) = 1 /\ FrontierPop) =>
            /\ pc' = "popped"
            /\ current_node'[1].state = current_node[1].state
            /\ is_empty(frontier')]_vars

\* push, push (replacing), pop, push, pop on a priority queue, all for one
\* state: the last push found the queue empty but for a superseded entry of
\* that state, which is still in the heap after the last pop
PushThenPopOnEmptyWitness ==
    /\ pc = "popped"
    /\ frontier.kind = "pq"
    /\ is_empty(frontier)
    /\ calls = 5
    /\ frontier.counter = 3
    /\ Cardinality(frontier.heap) = 1
    /\ \A e \in frontier.heap :
          e.count = 0 /\ e.priority = 1 /\ e.node.state = current_node[1].state

\* C16: the nodes a frontier holds (those pop will return) have distinct
\* states, their number is size(), their states are those for which contains
\* is true, and is_empty() holds exactly when size() is 0; superseded heap
\* entries of the priority queue are not counted.
FrontierConsistent ==
    LET d == Drain(frontier)
        states == {d[i].state : i \in 1..Len(d)}
    IN /\ Len(d) = len(frontier)
       /\ Cardinality(states) = Len(d)
       /\ states = Members(frontier)
       /\ is_empty(frontier) <=> (len(frontier) = 0)
       /\ is_empty(frontier) <=> (Members(frontier) = {})

\* a priority queue of two live entries whose heap holds four
FrontierConsistentWitness ==
    /\ pc = "pushed"
    /\ frontier.kind = "pq"
    /\ len(frontier) = 2
    /\ Cardinality(frontier.heap) = 4

(* a fresh frontier of the kind of f *)
Fresh(f) ==
    CASE f.kind = "stack" -> LIFOStackFrontier
      [] f.kind = "fifo" -> FIFOQueueFrontier
      [] f.kind = "pq" -> PriorityQueueFrontier

\* C17: pop on an empty frontier raises IndexError, returns no node and
\* leaves the frontier empty; one or two pushes after it give a frontier
\* that behaves as a fresh one after the same pushes.
PopOnEmptyRaises ==
    [][(is_empty(frontier) /\ FrontierPop) =>
          /\ pc' = "empty"
          /\ current_node' = None
          /\ len(frontier') = 0
          /\ Members(frontier') = {}
          /\ \A n1 \in CallerNodes, p1 \in Priorities :
                /\ Observable(push(frontier', n1, p1))
                     = Observable(push(Fresh(frontier), n1, p1))
                /\ \A n2 \in CallerNodes, p2 \in Priorities :
                      Observable(push(push(frontier', n1, p1), n2, p2))
                        = Observable(push(push(Fresh(frontier), n1, p1), n2, p2))]_vars

\* push, push (replacing), pop, pop on a priority queue: the second pop
\* found no live entry, only the superseded one, and raised
PopOnEmptyRaisesWitness ==
    /\ pc = "empty"
    /\ frontier.kind = "pq"
    /\ calls = 4
    /\ frontier.counter = 2
    /\ current_node = None

-----------------------------------------------------------------------------
(* Termination of strict graph search: every frontier with every stock
   priority function, step costs of either sign (negative cycles included).
   search() runs without interruption: weak fairness on its steps. *)

(* a cycle of negative total cost can be reached from the initial state: the
   least costs from the initial state do not settle *)
HasReachableNegativeCycle(p) ==
    Relax(p.cost, DistFrom(p.cost, p.init)) # DistFrom(p.cost, p.init)

InitStrictAny ==
    /\ problem \in Problems(ExtremeCosts, {{}})
    /\ frontier \in StockFrontiers
    /\ config \in {StrictGraphSearch(fn) : fn \in PriorityFns}
    /\ heuristic = NullHeuristic
    /\ InitEngine

SpecStrictFair == InitStrictAny /\ [][Next]_vars /\ WF_vars(Next)

\* C18: under strict graph search, with any frontier and any priority
\* function that does not raise, search() eventually returns a result,
\* whatever the step costs are (negative-cost cycles included).
StrictSearchTerminates == <>Done

\* a search that returned failure after expanding two states that lie on a
\* cycle of negative cost
StrictSearchTerminatesWitness ==
    /\ Done
    /\ HasReachableNegativeCycle(problem)
    /\ ~LastResult.success
    /\ LastResult.nodes_expanded = 2
    /\ closed = ReachableStates(problem)

-----------------------------------------------------------------------------
(* Termination of the cost-tracked search: priority queue, path-cost
   priority, allow_revisit, step costs of either sign.  On a graph with a
   negative cycle the paths grow without end; the model follows them up to
   depth MaxDepth and stops there without a result. *)

InitCostTracked ==
    /\ problem \in Problems(SignedCosts, {{}})
    /\ config = CostTrackedSearch("ucs")
    /\ frontier = PriorityQueueFrontier
    /\ heuristic = NullHeuristic
    /\ InitEngine

SpecCostTrackedFair == InitCostTracked /\ [][Next]_vars /\ WF_vars(Next)

\* C19: the cost-tracked uniform-cost search eventually returns a result on
\* every graph without a negative-cost cycle reachable from the initial
\* state; it can fail to return only when there is such a cycle.
CostTrackedSearchTerminates ==
    (~HasReachableNegativeCycle(problem)) => <>Done

\* a search that returned failure on a graph whose two reachable states lie
\* on a cycle of non-negative cost with a negative move in it
CostTrackedSearchTerminatesWitness ==
    /\ Done
    /\ ~HasReachableNegativeCycle(problem)
    /\ ~LastResult.success
    /\ LastResult.nodes_expanded = 2
    /\ \E e \in DOMAIN problem.cost :
          /\ e[1] = problem.init
          /\ problem.cost[e] < 0
          /\ <<e[2], e[1]>> \in DOMAIN problem.cost

-----------------------------------------------------------------------------
(* Searches with a robust priority function bound to max_nodes = the number
   of states of the graph; every frontier and mode, step costs of either
   sign *)

InitRobust ==
    /\ problem \in Problems(ExtremeCosts, {{}})
    /\ \E st \in RobustStrategies :
          /\ frontier = st[1]
          /\ config \in RobustModes(st[2], problem.num_states)
    /\ heuristic = NullHeuristic
    /\ InitEngine

SpecRobust == InitRobust /\ [][Next]_vars

\* C20: a search aborted by NegativeCycleDetectedError, raised by a robust
\* priority function with max_nodes = the number of states, ran on a graph
\* with a cycle of negative total cost reachable from the initial state, in
\* every mode and with every frontier.
AbortImpliesNegativeCycle ==
    Aborted => HasReachableNegativeCycle(problem)

-----------------------------------------------------------------------------
(* Termination with a robust priority function: every frontier and mode,
   max_nodes from 0 to the number of states, step costs of either sign.
   search() runs without interruption: weak fairness on its steps. *)

InitRobustAny ==
    /\ problem \in Problems(ExtremeCosts, {{}})
    /\ \E st \in RobustStrategies, max_nodes \in 0..NumStates :
          /\ frontier = st[1]
          /\ config \in RobustModes(st[2], max_nodes)
    /\ heuristic = NullHeuristic
    /\ InitEngine

SpecRobustFair == InitRobustAny /\ [][Next]_vars /\ WF_vars(Next)

(* every node a frontier holds, superseded heap entries included *)
HeldNodes(f) ==
    IF f.kind = "pq" THEN {e.node : e \in f.heap}
                     ELSE {f.items[i] : i \in 1..Len(f.items)}

\* C21: with a robust priority function bound to a finite max_nodes, search()
\* always ends, by returning a result or by raising NegativeCycleDetectedError,
\* in every mode; no node of depth >= max_nodes is ever in the frontier.
RobustSearchEnds ==
    /\ <>(Done \/ Aborted)
    /\ [](\A node \in HeldNodes(frontier) : node.depth < config.max_nodes)

\* a cost-tracked search on a graph with a reachable negative cycle, ended by
\* the exception after three expansions
RobustSearchEndsWitness ==
    /\ Aborted
    /\ config.graph_search /\ config.allow_revisit
    /\ config.max_nodes = problem.num_states
    /\ HasReachableNegativeCycle(problem)
    /\ nodes_expanded = 3

-----------------------------------------------------------------------------
(* Properties of the engine in every mode with every stock strategy (the
   specification Spec) *)

\* C22: search() never meets the IndexError of pop: whenever the frontier is
\* not empty pop returns a node, and in the priority queue every entry
\* recorded in entry_finder is in the heap.
PopNeverRaises ==
    /\ pc # "raised"
    /\ ~is_empty(frontier) => pop(frontier).ok
    /\ frontier.kind = "pq" =>
         \A s \in DOMAIN frontier.entry_finder :
            frontier.entry_finder[s] \in frontier.heap

\* a priority queue at the head of the loop, after two expansions, that
\* holds a superseded entry beside its live ones
PopNeverRaisesWitness ==
    /\ pc = "loop"
    /\ frontier.kind = "pq"
    /\ nodes_expanded = 2
    /\ ~is_empty(frontier)
    /\ Cardinality(frontier.heap) > len(frontier)

-----------------------------------------------------------------------------
(* Lazy deletion, under SpecFrontier *)

\* C23: a pop of the priority queue returns the node of the entry recorded
\* for its state, which is the latest entry accepted for that state (it is
\* not superseded); every other entry the pop takes off the heap is a stale
\* one; the returned entry leaves the heap and the index, so it is never
\* returned twice, also when older entries of the state stay in the heap.
LazyDeletion ==
    [][(frontier.kind = "pq" /\ FrontierPop /\ pop(frontier).ok) =>
          LET n == current_node'[1]
              removed == frontier.heap \ frontier'.heap
          IN /\ n.state \in DOMAIN frontier.entry_finder
             /\ LET r == frontier.entry_finder[n.state]
                IN /\ r.node = n
                   /\ r \in removed
                   /\ \A o \in frontier.heap :
                         o.node.state = n.state => o.count <= r.count
                   /\ \A o \in removed \ {r} :
                         ~(/\ o.node.state \in DOMAIN frontier.entry_finder
                           /\ frontier.entry_finder[o.node.state] = o)
                   /\ \A o \in frontier'.heap :
                         o.node.state = n.state => o.count < r.count
             /\ n.state \notin DOMAIN frontier'.entry_finder]_vars

\* three pushes were accepted, one of them replacing an entry, and the
\* second pop has thrown the superseded entry away before returning a node:
\* the heap and the index are empty
LazyDeletionWitness ==
    /\ pc = "popped"
    /\ frontier.kind = "pq"
    /\ calls = 5
    /\ frontier.counter = 3
    /\ frontier.heap = {}
    /\ is_empty(frontier)

-----------------------------------------------------------------------------
(* The closed set, under SpecStrict *)

\* C24: in strict graph search the closed set only grows, a state is
\* expanded only when it is not closed (so at most once) and is closed by
\* its expansion, and a child whose state is closed is never pushed.
ClosedSetDiscipline ==
    [][/\ pc # "idle" => closed \subseteq closed'
       /\ nodes_expanded' # nodes_expanded =>
            (pc = "idle" \/
               /\ nodes_expanded' = nodes_expanded + 1
               /\ pop(frontier).node[1].state \notin closed
               /\ closed' = closed \cup {pop(frontier).node[1].state})
       /\ (pc = "expand" /\ PendingChild.state \in closed) =>
            (frontier' = frontier /\ nodes_generated' = nodes_generated)]_vars

\* the search is back at the head of the loop after expanding two states,
\* the second of which has a move to the first: that child was not pushed
ClosedSetDisciplineWitness ==
    /\ pc = "loop"
    /\ Cardinality(closed) = 2
    /\ nodes_expanded = 2
    /\ nodes_generated = 2
    /\ is_empty(frontier)
    /\ \E s \in closed : <<s, problem.init>> \in DOMAIN problem.cost

-----------------------------------------------------------------------------
(* The cost-tracked mode with every frontier and stock priority function,
   step costs of either sign *)

InitRevisit ==
    /\ problem \in Problems(SignedCosts, {{}})
    /\ frontier \in StockFrontiers
    /\ config \in {CostTrackedSearch(fn) : fn \in PriorityFns}
    /\ heuristic = NullHeuristic
    /\ InitEngine

SpecRevisit == InitRevisit /\ [][Next]_vars

\* C25: in the cost-tracked mode best_cost never increases for any state; a
\* popped node that is not a goal is skipped exactly when its path cost is
\* strictly greater than the best cost of its state; and a state that was
\* expanded before is expanded again only with a strictly lower path cost.
BestCostDiscipline ==
    [][/\ pc # "idle" =>
            \A s \in DOMAIN best_cost :
                s \in DOMAIN best_cost' /\ best_cost'[s] <= best_cost[s]
       /\ (pc = "loop" /\ ~is_empty(frontier)
             /\ ~is_goal(problem, pop(frontier).node[1].state)) =>
            LET node == pop(frontier).node[1]
                best == DictGet(best_cost, node.state, Inf)
                first_expansion_of_root ==
                    nodes_expanded = 0 /\ node.state = problem.init
            IN /\ (nodes_expanded' = nodes_expanded) <=> (node.path_cost > best)
               /\ nodes_expanded' = nodes_expanded + 1 =>
                    /\ best_cost'[node.state] = node.path_cost
                    /\ first_expansion_of_root \/ node.path_cost < best]_vars

\* the initial state is being expanded for the second time, two moves deep,
\* at a cost below 0
BestCostDisciplineWitness ==
    /\ pc = "expand"
    /\ nodes_expanded = 3
    /\ current_node[1].state = problem.init
    /\ current_node[1].depth = 2
    /\ best_cost[problem.init] < 0

-----------------------------------------------------------------------------
(* What _expand_node writes, under Spec *)

\* C26: _expand_node leaves best_cost and the closed set unchanged in every
\* configuration: a step of the expansion changes only the frontier and
\* nodes_generated among the engine's fields, and best_cost is written only by
\* the start of search() and by the main loop when it accepts a popped node for
\* expansion.
ExpansionFrame ==
    [][/\ pc = "expand" =>
            /\ best_cost' = best_cost
            /\ closed' = closed
            /\ nodes_expanded' = nodes_expanded
            /\ max_frontier_size' = max_frontier_size
       /\ best_cost' # best_cost =>
            \/ pc = "idle"
            \/ /\ pc = "loop"
               /\ nodes_expanded' = nodes_expanded + 1
               /\ best_cost' = DictSet(best_cost, pop(frontier).node[1].state,
                                       pop(frontier).node[1].path_cost)]_vars

\* in the cost-tracked mode the root was expanded and its two successors pushed,
\* and best_cost still holds the root alone
ExpansionFrameWitness ==
    /\ pc = "loop"
    /\ config.graph_search /\ config.allow_revisit
    /\ nodes_expanded = 1
    /\ nodes_generated = 3
    /\ len(frontier) = 2
    /\ DOMAIN best_cost = {problem.init}

-----------------------------------------------------------------------------
(* The reported high-water mark, under Spec *)

(* the frontier sizes a search bounded by MaxDepth can reach *)
FrontierSizes == 0..(MaxEdges * MaxDepth + 1)

\* C27: for a search started on an empty frontier the max_frontier_size of the
\* result is the high-water mark of the frontier: no size the frontier had at
\* any moment of the search, between two pushes of an expansion included,
\* exceeds it, and it is a size the frontier did have.
HighWaterMark ==
    /\ [][max_frontier_size' \in {max_frontier_size, len(frontier)}]_vars
    /\ \A k \in FrontierSizes :
          [](len(frontier) = k =>
                [](Done => LastResult.max_frontier_size >= k))

\* the root was expanded, its two successors were pushed and the goal was
\* popped: the frontier held two nodes only after the second push
HighWaterMarkWitness ==
    /\ Done
    /\ LastResult.success
    /\ LastResult.nodes_expanded = 1
    /\ LastResult.nodes_generated = 3
    /\ LastResult.max_frontier_size = 2

-----------------------------------------------------------------------------
(* Returned paths: every frontier with every stock priority function in the
   three modes, step costs -1 and 1 *)

InitAnyMode ==
    /\ problem \in Problems(ExtremeCosts, {{}})
    /\ frontier \in StockFrontiers
    /\ config \in UNION {Modes(fn) : fn \in PriorityFns}
    /\ heuristic = NullHeuristic
    /\ InitEngine

SpecAnyMode == InitAnyMode /\ [][Next]_vars

(* TRUE when every consecutive pair of the path is a move that get_successors
   reports *)
FollowsEdges(p, path) ==
    \A i \in 1..(Len(path) - 1) :
        \E j \in 1..Len(get_successors(p, path[i])) :
            get_successors(p, path[i])[j][1] = path[i + 1]

(* the sum of the step costs along the path *)
RECURSIVE PathCost(_, _)
PathCost(p, path) ==
    IF Len(path) <= 1 THEN 0
    ELSE PathCost(p, SubSeq(path, 1, Len(path) - 1))
           + p.cost[<<path[Len(path) - 1], path[Len(path)]>>]

(* TRUE when the node's parent chain is a walk of the graph from the initial
   state and its depth and path_cost are the length and the cost of the walk *)
WellFormed(p, node) ==
    LET path == PathOf(node)
    IN /\ path[1] = p.init
       /\ path[Len(path)] = node.state
       /\ FollowsEdges(p, path)
       /\ node.depth = Len(path) - 1
       /\ node.path_cost = PathCost(p, path)

\* C28: the path of every successful result starts at the initial state, ends
\* in a goal state, follows moves reported by get_successors, and total_cost
\* is the sum of their step costs; every node pushed (held by the frontier or
\* being expanded) has its depth equal to the length of its parent chain and
\* its path_cost equal to the sum of the step costs along it.
PathValid ==
    /\ \A node \in HeldNodes(frontier) : WellFormed(problem, node)
    /\ current_node # None => WellFormed(problem, current_node[1])
    /\ \A i \in 1..Len(returned) :
          returned[i].success =>
            LET path == returned[i].path
            IN /\ path[1] = problem.init
               /\ is_goal(problem, path[Len(path)])
               /\ FollowsEdges(problem, path)
               /\ returned[i].total_cost = PathCost(problem, path)
               /\ WellFormed(problem, returned[i].goal_node[1])

\* a path of two moves, one of cost -1 and one of cost 1
PathValidWitness ==
    /\ Done
    /\ LastResult.success
    /\ Len(LastResult.path) = 3
    /\ LastResult.total_cost = 0
    /\ LastResult.goal_node[1].parent[1].path_cost = 0 - 1

-----------------------------------------------------------------------------
(* Graph search in both modes on every stock frontier; the goal is a state of
   the graph or a state no move leads to, so that the search can also exhaust
   the graph *)

InitGraphSearch ==
    /\ problem \in {[p EXCEPT !.goal = g] :
                      p \in Problems(ExtremeCosts, {{}}), g \in WideStates}
    /\ frontier \in StockFrontiers
    /\ config \in UNION {{StrictGraphSearch(fn), CostTrackedSearch(fn)} :
                           fn \in PriorityFns}
    /\ heuristic = NullHeuristic
    /\ InitEngine

SpecGraphSearch == InitGraphSearch /\ [][Next]_vars

(* the states of the nodes that pop can still return *)
LiveStates(f) == {Drain(f)[i].state : i \in 1..Len(Drain(f))}

\* C29: in a graph search started on an empty stock frontier no popped node is
\* ever skipped: in the strict mode the states in the frontier are disjoint
\* from the closed set, in the cost-tracked mode the path cost of the node
\* that pop returns is never greater than the best cost of its state, and
\* every pop of a node that is not a goal adds one to nodes_expanded.
NoSkip ==
    /\ [](/\ ~config.allow_revisit => LiveStates(frontier) \cap closed = {}
          /\ (pc \in {"loop", "expand"} /\ ~is_empty(frontier)) =>
               ~IsSkipped(pop(frontier).node[1]))
    /\ [][(pc = "loop" /\ ~is_empty(frontier)
             /\ ~is_goal(problem, pop(frontier).node[1].state)) =>
            /\ nodes_expanded' = nodes_expanded + 1
            /\ current_node' = pop(frontier).node]_vars

\* a strict search on the stack exhausted a graph of three states: one
\* expansion generated a state the stack already held
NoSkipWitness ==
    /\ Done
    /\ ~config.allow_revisit
    /\ frontier.kind = "stack"
    /\ ~LastResult.success
    /\ LastResult.nodes_expanded = 3
    /\ LastResult.nodes_generated = 4
    /\ LastResult.max_frontier_size = 2
    /\ Cardinality(closed) = 3

-----------------------------------------------------------------------------
(* The strict and the cost-tracked mode side by side: search() as a function
   of the problem and the configuration, run on a fresh priority queue *)

(* the engine after __init__ and the start of search(): the root is pushed;
   events is the record of the run: the nodes popped, the nodes expanded and
   the nodes pushed, in order; heads are the engine's fields at each head of
   the main loop; result is None until search() returns *)
search_start(cfg, p, h, f) ==
    LET root_node == Node(p.init, None, None, 0, 0)
        priority == call_priority_fn(cfg, root_node, h)
    IN [frontier |-> push(f, root_node, priority[1]),
        nodes_expanded |-> 0,
        nodes_generated |-> 1,
        max_frontier_size |-> 0,
        closed |-> {},
        best_cost |-> IF cfg.allow_revisit THEN DictSet(<<>>, p.init, 0) ELSE <<>>,
        events |-> <<<<"push", root_node>>>>,
        heads |-> {},
        result |-> None]

(* the engine's fields that the main loop reads and writes *)
Fields(e) ==
    [frontier |-> e.frontier, nodes_expanded |-> e.nodes_expanded,
     nodes_generated |-> e.nodes_generated,
     max_frontier_size |-> e.max_frontier_size,
     closed |-> e.closed, best_cost |-> e.best_cost]

(* the visited test of the main loop on engine e *)
visited_at_pop(cfg, e, node) ==
    /\ cfg.graph_search
    /\ IF cfg.allow_revisit
         THEN node.path_cost > DictGet(e.best_cost, node.state, Inf)
         ELSE node.state \in e.closed

(* a visited test of _expand_node that lets through a path as cheap as the
   best one *)
visited_at_push_only_dearer(cfg, e, next_state, new_cost) ==
    /\ cfg.graph_search
    /\ IF cfg.allow_revisit
         THEN new_cost > DictGet(e.best_cost, next_state, Inf)
         ELSE next_state \in e.closed

(* the visited test of _expand_node on engine e *)
visited_at_push(cfg, e, next_state, new_cost) ==
    /\ cfg.graph_search
    /\ IF cfg.allow_revisit
         THEN new_cost >= DictGet(e.best_cost, next_state, Inf)
         ELSE next_state \in e.closed

(* _expand_node from the i-th successor on; the path-cost priority never
   raises *)
RECURSIVE expand_node(_, _, _, _, _, _)
expand_node(cfg, p, h, e, node, i) ==
    IF i > Len(get_successors(p, node.state)) THEN e
    ELSE LET succ == get_successors(p, node.state)[i]
             next_state == succ[1]
             new_cost == node.path_cost + succ[3]
             child_node == Node(next_state, Some(node), succ[2], new_cost,
                                node.depth + 1)
             priority == call_priority_fn(cfg, child_node, h)
         IN IF visited_at_push(cfg, e, next_state, new_cost)
              THEN expand_node(cfg, p, h, e, node, i + 1)
              ELSE expand_node(cfg, p, h,
                     [e EXCEPT !.frontier = push(e.frontier, child_node, priority[1]),
                               !.nodes_generated = e.nodes_generated + 1,
                               !.events = Append(e.events, <<"push", child_node>>)],
                     node, i + 1)

(* the main loop, for at most fuel iterations *)
RECURSIVE search_loop(_, _, _, _, _)
search_loop(cfg, p, h, e, fuel) ==
    LET at_head == [e EXCEPT !.heads = e.heads \cup {Fields(e)}]
    IN IF fuel = 0 THEN at_head
       ELSE IF is_empty(e.frontier)
         THEN [at_head EXCEPT !.result =
                 Some(_build_failure_result(e.nodes_expanded, e.nodes_generated,
                                            e.max_frontier_size))]
         ELSE LET size == Max(e.max_frontier_size, len(e.frontier))
                  r == pop(e.frontier)
                  node == r.node[1]
                  popped == [at_head EXCEPT
                               !.max_frontier_size = size,
                               !.frontier = r.frontier,
                               !.events = Append(e.events, <<"pop", node>>)]
              IN IF is_goal(p, node.state)
                   THEN [popped EXCEPT !.result =
                           Some(_build_success_result(node, e.nodes_expanded,
                                                      e.nodes_generated, size))]
                   ELSE IF visited_at_pop(cfg, popped, node)
                     THEN search_loop(cfg, p, h, popped, fuel - 1)
                     ELSE search_loop(cfg, p, h,
                            expand_node(cfg, p, h,
                              [popped EXCEPT
                                 !.best_cost =
                                    IF cfg.graph_search /\ cfg.allow_revisit
                                      THEN DictSet(e.best_cost, node.state, node.path_cost)
                                      ELSE e.best_cost,
                                 !.closed =
                                    IF cfg.graph_search /\ ~cfg.allow_revisit
                                      THEN e.closed \cup {node.state}
                                      ELSE e.closed,
                                 !.nodes_expanded = e.nodes_expanded + 1,
                                 !.events = Append(popped.events, <<"expand", node>>)],
                              node, 1),
                            fuel - 1)

(* the iterations of the main loop of a graph search without re-expansion:
   one per state, and one to find the frontier empty *)
MaxIterations == NumStates + 2

RunSearch(cfg, p) ==
    search_loop(cfg, p, NullHeuristic,
                search_start(cfg, p, NullHeuristic, PriorityQueueFrontier),
                MaxIterations)

InitSideBySide ==
    /\ problem \in {[p EXCEPT !.goal = g] :
                      p \in Problems(NonNegativeCosts, {{}}), g \in WideStates}
    /\ frontier = PriorityQueueFrontier
    /\ config \in {StrictGraphSearch("ucs"), CostTrackedSearch("ucs")}
    /\ heuristic = NullHeuristic
    /\ InitEngine

SpecSideBySide == InitSideBySide /\ [][Next]_vars

(* what the two modes are compared on: the frontier and the statistics, not
   the closed set and best_cost, of which each mode keeps its own *)
Compared(fields) ==
    [frontier |-> fields.frontier, nodes_expanded |-> fields.nodes_expanded,
     nodes_generated |-> fields.nodes_generated,
     max_frontier_size |-> fields.max_frontier_size]

\* C30: on every graph with non-negative step costs, with the priority queue
\* and the path-cost priority, the strict and the cost-tracked graph search
\* run side by side pop the same nodes, expand the same nodes, push the same
\* nodes in the same order, pass through the same frontiers and statistics and
\* return the same SearchResult; the engine under either configuration goes
\* through exactly the loop heads of that run and returns its result.
ModesAgree ==
    LET strict == RunSearch(StrictGraphSearch("ucs"), problem)
        tracked == RunSearch(CostTrackedSearch("ucs"), problem)
        own == IF config.allow_revisit THEN tracked ELSE strict
    IN /\ strict.result # None /\ tracked.result # None
       /\ strict.events = tracked.events
       /\ strict.result = tracked.result
       /\ {Compared(x) : x \in strict.heads} = {Compared(x) : x \in tracked.heads}
       /\ pc = "loop" =>
            [frontier |-> frontier, nodes_expanded |-> nodes_expanded,
             nodes_generated |-> nodes_generated,
             max_frontier_size |-> max_frontier_size,
             closed |-> closed, best_cost |-> best_cost] \in own.heads
       /\ Done => LastResult = own.result[1]

\* the search expanded the three states of a graph with a move of cost 0 and
\* found the graph exhausted: one successor was generated for a state already
\* expanded, at the cost that state was expanded with
ModesAgreeWitness ==
    /\ Done
    /\ config.allow_revisit
    /\ ~LastResult.success
    /\ LastResult.nodes_expanded = 3
    /\ LastResult.nodes_generated = 3
    /\ Cardinality(DOMAIN problem.cost) = 3
    /\ \E e \in DOMAIN problem.cost :
          /\ problem.cost[e] = 0
          /\ e[1] # problem.init
          /\ best_cost[e[2]] = best_cost[e[1]]

====
